---- MODULE Spec2Model ----
(***************************************************************************)
(* Container lifecycle of the kata containerd shim: startContainer and     *)
(* deleteContainer (containerd-shim/kata/delete.go) and cleanupContainer   *)
(* (containerd-shim/kata/utils.go), run by one request flow against the    *)
(* sandbox control API (vci), with the background copy and wait            *)
(* activities that startContainer launches.                                *)
(***************************************************************************)
EXTENDS Naturals, Sequences, FiniteSets, TLC

\* ---------------------------------------------------------------- bounds

\* startContainer invocations explored in one behaviour
MaxStarts == 2

\* startExec invocations explored in one behaviour
MaxExecStarts == 2

\* ------------------------------------------------------------ vocabulary

Containers == {"c1", "c2"}

\* c.pid of each container, allocated when the container was created
pidOf == [c \in Containers |-> IF c = "c1" THEN 1 ELSE 2]

\* c.cType: "" is the unset value; c1 stands for the sandbox itself, c2 is a
\* regular container of it
CTypes(c) == IF c = "c1" THEN {"", "pod_sandbox"} ELSE {"", "pod_container"}

\* the <<stdin, stdout, stderr>> paths a container can have been created with
IOChoices == {<<"", "", "">>, <<"", "out", "">>, <<"in", "out", "err">>}

NoContainer == "none"

Execs == {"e1", "e2"}

\* the container whose exec table (c.execs) holds the exec
execOwner == [e \in Execs |-> IF e = "e1" THEN "c1" ELSE "c2"]

\* the <<height, width>> an exec can have been created with (execs.tty)
Geometries == {<<0, 0>>, <<24, 0>>, <<24, 80>>}

\* the <<stdin, stdout, stderr>> paths an exec can have been created with
ExecIOChoices == {<<"", "", "">>, <<"in", "out", "err">>}

NoExec == "none"

VARIABLES
    sandbox,       \* s.sandbox != nil
    containers,    \* s.containers: the ids in the id-indexed table
    processes,     \* s.processes: pid -> id
    cType,         \* c.cType
    stdio,         \* <<c.stdin, c.stdout, c.stderr>>
    status,        \* c.status
    ttyio,         \* c.ttyio has been set
    exitIOch,      \* number of close(c.exitIOch) executed
    copies,        \* ioCopy activities running for c
    waits,         \* wait activities running for c
    panicked,      \* the process died of a runtime panic
    vmContainers,  \* the containers the sandbox holds (GetAllContainers)
    vmState,       \* the state StatusContainer reports for a container
    vmSandbox,     \* the sandbox's own state
    op,            \* the operation the request flow is executing
    cid,           \* its container
    pc,            \* its position
    calls,         \* the calls it has made so far, in order
    failed,        \* those of its calls that returned an error
    seen,          \* the state its status query returned
    ret,           \* what it returned
    pre,           \* the tables as they were when it was called
    nStarts,       \* startContainer invocations so far
    eid,           \* the exec of the operation the request flow is executing
    eTty,          \* execs.tty: height, width, stdin, stdout, stderr
    eStatus,       \* execs.status
    ePid,          \* execs.pid, 0 while unset
    eId,           \* execs.id: the process token, "" while unset
    eTtyio,        \* execs.ttyio has been set
    eExitIOch,     \* number of close(execs.exitIOch) executed
    eCopies,       \* ioCopy activities running for the exec
    eWaits,        \* wait activities running for the exec
    pidNum,        \* the last pid s.pid() handed out
    ec,            \* s.ec: the exit records delivered so far
    timedOut,      \* the reap timeout of a container's or exec's wait has elapsed
    nExecs,        \* startExec invocations so far
    proxyType,     \* a ProxyType variable, the target of Set
    fp,            \* the last format-then-parse of a ProxyType: in, text, err, out
    pf,            \* the last parse-then-format of a text: in, value, err, out
    mu,            \* the holder of the service lock, or "none"
    th             \* the concurrent requests: op, pc, table copies, outcome

vmVars == <<vmContainers, vmState, vmSandbox>>
tableVars == <<containers, processes>>
cfgVars == <<sandbox, cType, stdio>>
bgVars == <<exitIOch, copies, waits>>
execCfgVars == <<eid, eTty>>
execVars == <<eStatus, ePid, eId, eTtyio, eExitIOch, eCopies, eWaits, pidNum, nExecs>>
proxyVars == <<proxyType, fp, pf>>
concVars == <<mu, th>>
extVars == <<execCfgVars, execVars, ec, timedOut, proxyVars, concVars>>
mainVars == <<sandbox, containers, processes, cType, stdio, status, ttyio, exitIOch,
              copies, waits, panicked, vmContainers, vmState, vmSandbox, op, cid, pc,
              calls, failed, seen, ret, pre, nStarts>>
vars == <<sandbox, containers, processes, cType, stdio, status, ttyio, exitIOch,
          copies, waits, panicked, vmContainers, vmState, vmSandbox, op, cid, pc,
          calls, failed, seen, ret, pre, nStarts, extVars>>

\* ------------------------------------------------------------------ helpers

\* c.stdin != "" || c.stdout != "" || c.stderr != ""
HasIO(c) == stdio[c][1] # "" \/ stdio[c][2] # "" \/ stdio[c][3] # ""

\* cType.IsSandbox()
IsSandbox(c) == cType[c] = "pod_sandbox"

\* oci.StateToOCIState
StateToOCIState(s) ==
    CASE s = "ready" -> "created"
      [] s = "running" -> "running"
      [] s = "stopped" -> "stopped"
      [] s = "paused" -> "paused"
      [] OTHER -> ""

\* delete(m, k) on a Go map
MapDelete(m, k) == [x \in DOMAIN m \ {k} |-> m[x]]

\* m[k] = v on a Go map
MapPut(m, k, v) == [x \in DOMAIN m \cup {k} |-> IF x = k THEN v ELSE m[x]]

\* position of the first occurrence of a call in the log, 0 when absent
Pos(log, name) ==
    IF \E i \in 1..Len(log) : log[i] = name
    THEN CHOOSE i \in 1..Len(log) : log[i] = name /\ \A j \in 1..(i - 1) : log[j] # name
    ELSE 0

Called(name) == Pos(calls, name) > 0

Before(a, b) == Called(a) /\ Called(b) /\ Pos(calls, a) < Pos(calls, b)

Snapshot ==
    [containers |-> containers, processes |-> processes, vm |-> vmContainers,
     status |-> status, eStatus |-> eStatus, ePid |-> ePid]

NoSnapshot ==
    [containers |-> {}, processes |-> <<>>, vm |-> {}, status |-> <<>>,
     eStatus |-> <<>>, ePid |-> <<>>]

\* the request flow enters an operation
Enter(o, c) ==
    /\ pc = "idle"
    /\ ~panicked
    /\ op' = o
    /\ cid' = c
    /\ pre' = Snapshot

\* the operation makes a call; `ok` tells whether the call succeeded
Log(name, ok) ==
    /\ calls' = Append(calls, name)
    /\ failed' = IF ok THEN failed ELSE failed \cup {name}

\* the operation goes on at `next`
Goto(next) ==
    /\ pc' = next
    /\ ret' = ret

\* the operation returns r ("nil" or "err")
ReturnWith(r) ==
    /\ pc' = "done"
    /\ ret' = r

\* the operation is at `at`, past its entry
At(o, at) ==
    /\ op = o
    /\ pc = at
    /\ ~panicked
    /\ UNCHANGED <<op, cid, pre>>

\* ------------------------------------------------- the sandbox control API
\* What a call that succeeds does to the sandbox; a call that fails does nothing.

VmHas(c) == vmSandbox # "deleted" /\ c \in vmContainers

VmStartSandbox(c) ==
    /\ vmSandbox' = "running"
    /\ vmState' = [vmState EXCEPT ![c] = "running"]
    /\ UNCHANGED vmContainers

VmStartContainer(c) ==
    /\ vmState' = [vmState EXCEPT ![c] = "running"]
    /\ UNCHANGED <<vmContainers, vmSandbox>>

VmStopContainer(c) ==
    /\ vmState' = [vmState EXCEPT ![c] = "stopped"]
    /\ UNCHANGED <<vmContainers, vmSandbox>>

VmDeleteContainer(c) ==
    /\ vmContainers' = vmContainers \ {c}
    /\ UNCHANGED <<vmState, vmSandbox>>

VmStopSandbox ==
    /\ vmSandbox' = "stopped"
    /\ UNCHANGED <<vmContainers, vmState>>

VmDeleteSandbox ==
    /\ vmSandbox' = "deleted"
    /\ UNCHANGED <<vmContainers, vmState>>

\* ---------------------------------------------------------------- ProxyType

\* the zero value of ProxyType (var proxyType ProxyType)
ZeroProxyType == "ZeroProxyType"

KnownProxyTypes == {"NoProxyType", "KataProxyType", "KataBuiltInProxyType", "NoopProxyType"}

KnownTokens == {"noProxy", "kataProxy", "kataBuiltInProxy", "noopProxy"}

\* the texts given to Set: the four tokens, the empty text and unknown ones
Texts == KnownTokens \cup {"", "unknown", "KataProxy"}

\* variant: the built-in proxy is written as the plain kata proxy
ProxyTypeStringMixedUp(t) ==
    CASE t = "NoProxyType" -> "noProxy"
      [] t = "KataProxyType" -> "kataProxy"
      [] t = "KataBuiltInProxyType" -> "kataProxy"
      [] t = "NoopProxyType" -> "noopProxy"
      [] OTHER -> ""

\* (*ProxyType).String
ProxyTypeString(t) ==
    CASE t = "NoProxyType" -> "noProxy"
      [] t = "KataProxyType" -> "kataProxy"
      [] t = "KataBuiltInProxyType" -> "kataBuiltInProxy"
      [] t = "NoopProxyType" -> "noopProxy"
      [] OTHER -> ""

\* (*ProxyType).Set fails: the text is none of the four tokens
ProxyTypeSetErr(text) == text \notin KnownTokens

\* (*ProxyType).Set: the value of the target afterwards; unchanged on failure
ProxyTypeSet(target, text) ==
    CASE text = "noProxy" -> "NoProxyType"
      [] text = "kataProxy" -> "KataProxyType"
      [] text = "kataBuiltInProxy" -> "KataBuiltInProxyType"
      [] text = "noopProxy" -> "NoopProxyType"
      [] OTHER -> target

NoTrip == [in |-> "none", mid |-> "none", err |-> FALSE, out |-> "none"]

ProxyIdle ==
    /\ proxyType = ZeroProxyType
    /\ fp = NoTrip
    /\ pf = NoTrip

\* t.String(), then Set of that text on the variable
formatThenParse(t) ==
    /\ proxyType' = ProxyTypeSet(proxyType, ProxyTypeString(t))
    /\ fp' = [in |-> t, mid |-> ProxyTypeString(t),
              err |-> ProxyTypeSetErr(ProxyTypeString(t)), out |-> proxyType']
    /\ UNCHANGED <<pf, mainVars, execCfgVars, execVars, ec, timedOut, concVars>>

\* Set of a text on the variable, then String() of the variable
parseThenFormat(text) ==
    /\ proxyType' = ProxyTypeSet(proxyType, text)
    /\ pf' = [in |-> text, mid |-> proxyType', err |-> ProxyTypeSetErr(text),
              out |-> ProxyTypeString(proxyType')]
    /\ UNCHANGED <<fp, mainVars, execCfgVars, execVars, ec, timedOut, concVars>>

\* --------------------------------------------------------------------- Init

\* ------------------------------------------------------ concurrent requests

Threads == {"t1", "t2"}

\* the requests of a thread are for its own container and that container's exec
threadContainer == [t \in Threads |-> IF t = "t1" THEN "c1" ELSE "c2"]

threadExec == [t \in Threads |-> IF t = "t1" THEN "e1" ELSE "e2"]

IdleThread ==
    [op |-> "none", pc |-> "idle", rdP |-> <<>>, rdC |-> {}, reached |-> FALSE,
     ret |-> "none"]

\* no request under way, the service lock free
ConcIdle ==
    /\ mu = "none"
    /\ th = [t \in Threads |-> IdleThread]

\* the execs as exec-create left them, none started
ExecsCreated ==
    /\ eid = NoExec
    /\ eStatus = [e \in Execs |-> "created"]
    /\ ePid = [e \in Execs |-> 0]
    /\ eId = [e \in Execs |-> ""]
    /\ eTtyio = [e \in Execs |-> FALSE]
    /\ eExitIOch = [e \in Execs |-> 0]
    /\ eCopies = [e \in Execs |-> 0]
    /\ eWaits = [e \in Execs |-> 0]
    /\ pidNum = Cardinality(Containers)
    /\ ec = {}
    /\ timedOut = [p \in Containers \cup Execs |-> FALSE]
    /\ nExecs = 0
    /\ ProxyIdle
    /\ ConcIdle

Init ==
    /\ sandbox \in BOOLEAN
    /\ containers = Containers
    /\ processes = [p \in {pidOf[c] : c \in Containers} |->
                      CHOOSE c \in Containers : pidOf[c] = p]
    /\ cType \in {f \in [Containers -> {"", "pod_sandbox", "pod_container"}] :
                    \A c \in Containers : f[c] \in CTypes(c)}
    /\ stdio \in [Containers -> IOChoices]
    /\ status = [c \in Containers |-> "created"]
    /\ ttyio = [c \in Containers |-> FALSE]
    /\ exitIOch = [c \in Containers |-> 0]
    /\ copies = [c \in Containers |-> 0]
    /\ waits = [c \in Containers |-> 0]
    /\ panicked = FALSE
    /\ vmContainers = Containers
    /\ vmState = [c \in Containers |-> "ready"]
    /\ vmSandbox = "ready"
    /\ op = "none"
    /\ cid = NoContainer
    /\ pc = "idle"
    /\ calls = <<>>
    /\ failed = {}
    /\ seen = "none"
    /\ ret = "none"
    /\ pre = NoSnapshot
    /\ nStarts = 0
    /\ eTty = [e \in Execs |-> [height |-> 0, width |-> 0, stdio |-> <<"", "", "">>]]
    /\ ExecsCreated

\* ---------------------------------------------------------- deleteContainer

\* s.sandbox.ID() on a nil sandbox: a nil dereference
deleteNilSandbox(c) ==
    /\ Enter("delete", c)
    /\ c \in containers
    /\ ~sandbox
    /\ panicked' = TRUE
    /\ pc' = "panic"
    /\ UNCHANGED <<extVars, cfgVars, tableVars, status, ttyio, bgVars, vmVars, calls, failed,
                   seen, ret, nStarts>>

\* variant: the stop is issued whatever the status
deleteStatusAlwaysStops(c, ok) ==
    /\ Enter("delete", c)
    /\ c \in containers
    /\ sandbox
    /\ ok => VmHas(c)
    /\ Log("StatusContainer", ok)
    /\ IF ok
       THEN seen' = vmState[c] /\ Goto("stop")
       ELSE seen' = seen /\ ReturnWith("err")
    /\ UNCHANGED <<extVars, cfgVars, tableVars, status, ttyio, bgVars, panicked, vmVars, nStarts>>

\* status, err := vci.StatusContainer(...); if err != nil { return err }
deleteStatus(c, ok) ==
    /\ Enter("delete", c)
    /\ c \in containers
    /\ sandbox
    /\ ok => VmHas(c)
    /\ Log("StatusContainer", ok)
    /\ IF ok
       THEN /\ seen' = vmState[c]
            /\ Goto(IF vmState[c] # "stopped" THEN "stop" ELSE "delete")
       ELSE /\ seen' = seen
            /\ ReturnWith("err")
    /\ UNCHANGED <<extVars, cfgVars, tableVars, status, ttyio, bgVars, panicked, vmVars, nStarts>>

\* if status.State.State != vc.StateStopped { vci.StopContainer(...) }
deleteStop(ok) ==
    /\ At("delete", "stop")
    /\ ok => VmHas(cid)
    /\ Log("StopContainer", ok)
    /\ IF ok
       THEN VmStopContainer(cid) /\ Goto("delete")
       ELSE UNCHANGED vmVars /\ ReturnWith("err")
    /\ UNCHANGED <<extVars, cfgVars, tableVars, status, ttyio, bgVars, panicked, seen, nStarts>>

\* _, err = vci.DeleteContainer(...); if err != nil { return err }
deleteDelete(ok) ==
    /\ At("delete", "delete")
    /\ ok => VmHas(cid)
    /\ Log("DeleteContainer", ok)
    /\ IF ok
       THEN VmDeleteContainer(cid) /\ Goto("unmount")
       ELSE UNCHANGED vmVars /\ ReturnWith("err")
    /\ UNCHANGED <<extVars, cfgVars, tableVars, status, ttyio, bgVars, panicked, seen, nStarts>>

\* variant: the unmount's error is returned
deleteUnmountReturnsErr(ok) ==
    /\ At("delete", "unmount")
    /\ Log("UnmountAll", ok)
    /\ IF ok THEN Goto("remove") ELSE ReturnWith("err")
    /\ UNCHANGED <<extVars, cfgVars, tableVars, status, ttyio, bgVars, panicked, vmVars, seen,
                   nStarts>>

\* if err := mount.UnmountAll(rootfs, 0); err != nil { logrus...Warn(...) }
deleteUnmount(ok) ==
    /\ At("delete", "unmount")
    /\ Log("UnmountAll", ok)
    /\ Goto("remove")
    /\ UNCHANGED <<extVars, cfgVars, tableVars, status, ttyio, bgVars, panicked, vmVars, seen,
                   nStarts>>

\* delete(s.processes, c.pid); delete(s.containers, c.id); return nil
deleteRemove ==
    /\ At("delete", "remove")
    /\ processes' = MapDelete(processes, pidOf[cid])
    /\ containers' = containers \ {cid}
    /\ ReturnWith("nil")
    /\ UNCHANGED <<extVars, cfgVars, status, ttyio, bgVars, panicked, vmVars, calls, failed,
                   seen, nStarts>>

deleteContainer ==
    \/ \E c \in Containers : deleteNilSandbox(c)
    \/ \E c \in Containers, ok \in BOOLEAN : deleteStatus(c, ok)
    \/ \E ok \in BOOLEAN : deleteStop(ok)
    \/ \E ok \in BOOLEAN : deleteDelete(ok)
    \/ \E ok \in BOOLEAN : deleteUnmount(ok)
    \/ deleteRemove

\* --------------------------------------------------------- cleanupContainer

\* sandbox, err := vci.FetchSandbox(ctx, sid); if err != nil { return err }
cleanupFetch(c, ok) ==
    /\ Enter("cleanup", c)
    /\ ok => vmSandbox # "deleted"
    /\ Log("FetchSandbox", ok)
    /\ IF ok THEN Goto("status") ELSE ReturnWith("err")
    /\ UNCHANGED <<extVars, cfgVars, tableVars, status, ttyio, bgVars, panicked, vmVars, seen,
                   nStarts>>

\* variant: the kill is issued whatever the status
cleanupStatusAlwaysKills(ok) ==
    /\ At("cleanup", "status")
    /\ ok => VmHas(cid)
    /\ Log("StatusContainer", ok)
    /\ IF ok
       THEN seen' = vmState[cid] /\ Goto("kill")
       ELSE seen' = seen /\ ReturnWith("err")
    /\ UNCHANGED <<extVars, cfgVars, tableVars, status, ttyio, bgVars, panicked, vmVars, nStarts>>

\* status, err := sandbox.StatusContainer(cid); if err != nil { ...; return err }
cleanupStatus(ok) ==
    /\ At("cleanup", "status")
    /\ ok => VmHas(cid)
    /\ Log("StatusContainer", ok)
    /\ IF ok
       THEN /\ seen' = vmState[cid]
            /\ Goto(IF StateToOCIState(vmState[cid]) # "stopped" THEN "kill" ELSE "stop")
       ELSE /\ seen' = seen
            /\ ReturnWith("err")
    /\ UNCHANGED <<extVars, cfgVars, tableVars, status, ttyio, bgVars, panicked, vmVars, nStarts>>

\* vci.KillContainer(ctx, sid, cid, syscall.SIGKILL, true); on error return err
cleanupKill(ok) ==
    /\ At("cleanup", "kill")
    /\ ok => VmHas(cid)
    /\ Log("KillContainer", ok)
    /\ IF ok THEN Goto("stop") ELSE ReturnWith("err")
    /\ UNCHANGED <<extVars, cfgVars, tableVars, status, ttyio, bgVars, panicked, vmVars, seen,
                   nStarts>>

\* variant: the stop's error is logged and swallowed
cleanupStopSwallows(ok) ==
    /\ At("cleanup", "stop")
    /\ ok => VmHas(cid)
    /\ Log("StopContainer", ok)
    /\ IF ok THEN VmStopContainer(cid) ELSE UNCHANGED vmVars
    /\ Goto("delete")
    /\ UNCHANGED <<extVars, cfgVars, tableVars, status, ttyio, bgVars, panicked, seen, nStarts>>

\* if _, err = vci.StopContainer(ctx, sid, cid); err != nil { ...; return err }
cleanupStop(ok) ==
    /\ At("cleanup", "stop")
    /\ ok => VmHas(cid)
    /\ Log("StopContainer", ok)
    /\ IF ok
       THEN VmStopContainer(cid) /\ Goto("delete")
       ELSE UNCHANGED vmVars /\ ReturnWith("err")
    /\ UNCHANGED <<extVars, cfgVars, tableVars, status, ttyio, bgVars, panicked, seen, nStarts>>

\* variant: the delete's error is returned
cleanupDeleteReturnsErr(ok) ==
    /\ At("cleanup", "delete")
    /\ ok => VmHas(cid)
    /\ Log("DeleteContainer", ok)
    /\ IF ok
       THEN VmDeleteContainer(cid) /\ Goto("unmount")
       ELSE UNCHANGED vmVars /\ ReturnWith("err")
    /\ UNCHANGED <<extVars, cfgVars, tableVars, status, ttyio, bgVars, panicked, seen, nStarts>>

\* if _, err := vci.DeleteContainer(ctx, sid, cid); err != nil { logrus...Warnf }
cleanupDelete(ok) ==
    /\ At("cleanup", "delete")
    /\ ok => VmHas(cid)
    /\ Log("DeleteContainer", ok)
    /\ IF ok THEN VmDeleteContainer(cid) ELSE UNCHANGED vmVars
    /\ Goto("unmount")
    /\ UNCHANGED <<extVars, cfgVars, tableVars, status, ttyio, bgVars, panicked, seen, nStarts>>

\* if err := mount.UnmountAll(rootfs, 0); err != nil { logrus...Warnf }
cleanupUnmount(ok) ==
    /\ At("cleanup", "unmount")
    /\ Log("UnmountAll", ok)
    /\ Goto("check")
    /\ UNCHANGED <<extVars, cfgVars, tableVars, status, ttyio, bgVars, panicked, vmVars, seen,
                   nStarts>>

\* variant: the cascade does not look at the remaining containers
cleanupCheckAlwaysCascades ==
    /\ At("cleanup", "check")
    /\ Log("GetAllContainers", TRUE)
    /\ Goto("stopSandbox")
    /\ UNCHANGED <<extVars, cfgVars, tableVars, status, ttyio, bgVars, panicked, vmVars, seen,
                   nStarts>>

\* if len(sandbox.GetAllContainers()) == 0 { ... }; return nil
cleanupCheck ==
    /\ At("cleanup", "check")
    /\ Log("GetAllContainers", TRUE)
    /\ IF Cardinality(vmContainers) = 0 THEN Goto("stopSandbox") ELSE ReturnWith("nil")
    /\ UNCHANGED <<extVars, cfgVars, tableVars, status, ttyio, bgVars, panicked, vmVars, seen,
                   nStarts>>

\* variant: the sandbox is deleted although its stop failed
cleanupStopSandboxGoesOn(ok) ==
    /\ At("cleanup", "stopSandbox")
    /\ ok => vmSandbox # "deleted"
    /\ Log("StopSandbox", ok)
    /\ IF ok THEN VmStopSandbox ELSE UNCHANGED vmVars
    /\ Goto("deleteSandbox")
    /\ UNCHANGED <<extVars, cfgVars, tableVars, status, ttyio, bgVars, panicked, seen, nStarts>>

\* _, err = vci.StopSandbox(ctx, sid); if err != nil { ...; return err }
cleanupStopSandbox(ok) ==
    /\ At("cleanup", "stopSandbox")
    /\ ok => vmSandbox # "deleted"
    /\ Log("StopSandbox", ok)
    /\ IF ok
       THEN VmStopSandbox /\ Goto("deleteSandbox")
       ELSE UNCHANGED vmVars /\ ReturnWith("err")
    /\ UNCHANGED <<extVars, cfgVars, tableVars, status, ttyio, bgVars, panicked, seen, nStarts>>

\* _, err = vci.DeleteSandbox(ctx, sid); if err != nil { ...; return err }; return nil
cleanupDeleteSandbox(ok) ==
    /\ At("cleanup", "deleteSandbox")
    /\ ok => vmSandbox # "deleted"
    /\ Log("DeleteSandbox", ok)
    /\ IF ok
       THEN VmDeleteSandbox /\ ReturnWith("nil")
       ELSE UNCHANGED vmVars /\ ReturnWith("err")
    /\ UNCHANGED <<extVars, cfgVars, tableVars, status, ttyio, bgVars, panicked, seen, nStarts>>

cleanupContainer ==
    \/ \E c \in Containers, ok \in BOOLEAN : cleanupFetch(c, ok)
    \/ \E ok \in BOOLEAN : cleanupStatus(ok)
    \/ \E ok \in BOOLEAN : cleanupKill(ok)
    \/ \E ok \in BOOLEAN : cleanupStop(ok)
    \/ \E ok \in BOOLEAN : cleanupDelete(ok)
    \/ \E ok \in BOOLEAN : cleanupUnmount(ok)
    \/ cleanupCheck
    \/ \E ok \in BOOLEAN : cleanupStopSandbox(ok)
    \/ \E ok \in BOOLEAN : cleanupDeleteSandbox(ok)

\* ----------------------------------------------------------- startContainer

\* close(ch): closing a channel that is already closed panics
Close(c) ==
    /\ exitIOch' = [exitIOch EXCEPT ![c] = @ + 1]
    /\ panicked' = (exitIOch[c] >= 1)

\* variant: the missing sandbox is not checked for
startEnterNoSandboxCheck(c) ==
    /\ Enter("start", c)
    /\ c \in containers
    /\ nStarts < MaxStarts
    /\ nStarts' = nStarts + 1
    /\ IF cType[c] = ""
       THEN failed' = {"cType"} /\ ReturnWith("err")
       ELSE failed' = failed /\ Goto("vciStart")
    /\ UNCHANGED <<extVars, cfgVars, tableVars, status, ttyio, bgVars, panicked, vmVars, calls,
                   seen>>

\* if c.cType == "" { return err }; if s.sandbox == nil { return err }
startEnter(c) ==
    /\ Enter("start", c)
    /\ c \in containers
    /\ nStarts < MaxStarts
    /\ nStarts' = nStarts + 1
    /\ IF cType[c] = ""
       THEN failed' = {"cType"} /\ ReturnWith("err")
       ELSE IF ~sandbox
            THEN failed' = {"sandbox"} /\ ReturnWith("err")
            ELSE failed' = failed /\ Goto("vciStart")
    /\ UNCHANGED <<extVars, cfgVars, tableVars, status, ttyio, bgVars, panicked, vmVars, calls,
                   seen>>

\* vci.StartSandbox / vci.StartContainer; on error return err; c.status = running
startVci(ok) ==
    /\ At("start", "vciStart")
    /\ ok => /\ vmState[cid] \in {"ready", "stopped"}
             /\ IF IsSandbox(cid) THEN vmSandbox \in {"ready", "stopped"} ELSE VmHas(cid)
    /\ Log(IF IsSandbox(cid) THEN "StartSandbox" ELSE "StartContainer", ok)
    /\ IF ok
       THEN /\ IF IsSandbox(cid) THEN VmStartSandbox(cid) ELSE VmStartContainer(cid)
            /\ status' = [status EXCEPT ![cid] = "running"]
            /\ Goto("iostream")
       ELSE /\ UNCHANGED <<vmVars, status>>
            /\ ReturnWith("err")
    /\ UNCHANGED <<extVars, cfgVars, tableVars, ttyio, bgVars, panicked, seen, nStarts>>

\* variant: the error of IOStream is dropped
startIOStreamGoesOn(ok) ==
    /\ At("start", "iostream")
    /\ Log("IOStream", ok)
    /\ Goto("io")
    /\ UNCHANGED <<extVars, cfgVars, tableVars, status, ttyio, bgVars, panicked, vmVars, seen,
                   nStarts>>

\* stdin, stdout, stderr, err := s.sandbox.IOStream(c.id, c.id); on error return err
startIOStream(ok) ==
    /\ At("start", "iostream")
    /\ Log("IOStream", ok)
    /\ IF ok THEN Goto("io") ELSE ReturnWith("err")
    /\ UNCHANGED <<extVars, cfgVars, tableVars, status, ttyio, bgVars, panicked, vmVars, seen,
                   nStarts>>

\* tty, err := newTtyIO(...); on error return err; c.ttyio = tty; go ioCopy(...)
startTty(ok) ==
    /\ At("start", "io")
    /\ HasIO(cid)
    /\ failed' = IF ok THEN failed ELSE failed \cup {"newTtyIO"}
    /\ IF ok
       THEN /\ calls' = calls \o <<"newTtyIO", "go ioCopy">>
            /\ ttyio' = [ttyio EXCEPT ![cid] = TRUE]
            /\ copies' = [copies EXCEPT ![cid] = @ + 1]
            /\ Goto("wait")
       ELSE /\ calls' = Append(calls, "newTtyIO")
            /\ UNCHANGED <<ttyio, copies>>
            /\ ReturnWith("err")
    /\ UNCHANGED <<extVars, cfgVars, tableVars, status, exitIOch, waits, panicked, vmVars, seen,
                   nStarts>>

\* variant: the exit channel is left open when there is no I/O
startCloseForgotten ==
    /\ At("start", "io")
    /\ ~HasIO(cid)
    /\ Goto("wait")
    /\ UNCHANGED <<extVars, cfgVars, tableVars, status, ttyio, bgVars, panicked, vmVars, calls,
                   failed, seen, nStarts>>

\* else { close(c.exitIOch) }
startClose ==
    /\ At("start", "io")
    /\ ~HasIO(cid)
    /\ Log("close", TRUE)
    /\ Close(cid)
    /\ IF exitIOch[cid] >= 1
       THEN pc' = "panic" /\ ret' = ret
       ELSE Goto("wait")
    /\ UNCHANGED <<extVars, cfgVars, tableVars, status, ttyio, copies, waits, vmVars, seen,
                   nStarts>>

\* go wait(s, c, ""); return nil
startWait ==
    /\ At("start", "wait")
    /\ Log("go wait", TRUE)
    /\ waits' = [waits EXCEPT ![cid] = @ + 1]
    /\ ReturnWith("nil")
    /\ UNCHANGED <<extVars, cfgVars, tableVars, status, ttyio, exitIOch, copies, panicked, vmVars,
                   seen, nStarts>>

startContainer ==
    \/ \E c \in Containers : startEnter(c)
    \/ \E ok \in BOOLEAN : startVci(ok)
    \/ \E ok \in BOOLEAN : startIOStream(ok)
    \/ \E ok \in BOOLEAN : startTty(ok)
    \/ startClose
    \/ startWait

\* ---------------------------------------------------- background activities

\* ioCopy: the streams reach their end, the copy closes the exit channel
ioCopy(c) ==
    /\ ~panicked
    /\ copies[c] > 0
    /\ copies' = [copies EXCEPT ![c] = @ - 1]
    /\ Close(c)
    /\ UNCHANGED <<extVars, cfgVars, tableVars, status, ttyio, waits, vmVars, op, cid, pc, calls,
                   failed, seen, ret, pre, nStarts>>

\* wait: blocked until the exit channel is closed, then done
wait(c) ==
    /\ ~panicked
    /\ waits[c] > 0
    /\ exitIOch[c] >= 1
    /\ waits' = [waits EXCEPT ![c] = @ - 1]
    /\ UNCHANGED <<extVars, cfgVars, tableVars, status, ttyio, exitIOch, copies, panicked, vmVars,
                   op, cid, pc, calls, failed, seen, ret, pre, nStarts>>

\* ---------------------------------------------------------------- startExec

\* s.pid(): a pid that was never handed out
NewPid == pidNum + 1

\* variant: one nonzero dimension is enough
HasGeometryEither(e) == eTty[e].height # 0 \/ eTty[e].width # 0

\* execs.tty.height != 0 && execs.tty.width != 0
HasGeometry(e) == eTty[e].height # 0 /\ eTty[e].width # 0

\* the exec variables startExec leaves alone when it only makes a call
execRest == <<eTty, execVars, ec, timedOut, proxyVars, concVars, cfgVars, tableVars, status, ttyio, bgVars, vmVars,
              nStarts>>

\* c, err := s.getContainer(containerID); execs, err := c.getExec(execID)
execEnter(c, e) ==
    /\ Enter("exec", c)
    /\ eid' = e
    /\ nExecs < MaxExecStarts
    /\ nExecs' = nExecs + 1
    /\ IF c \notin containers
       THEN failed' = {"getContainer"} /\ ReturnWith("err")
       ELSE IF execOwner[e] # c
            THEN failed' = {"getExec"} /\ ReturnWith("err")
            ELSE failed' = failed /\ Goto("enter")
    /\ UNCHANGED <<eTty, eStatus, ePid, eId, eTtyio, eExitIOch, eCopies, eWaits, pidNum,
                   ec, timedOut, proxyVars, concVars, cfgVars, tableVars, status, ttyio, bgVars, vmVars, nStarts,
                   panicked, calls, seen>>

\* s.sandbox.EnterContainer(...) on a nil sandbox: a nil dereference
execNilSandbox ==
    /\ At("exec", "enter")
    /\ ~sandbox
    /\ panicked' = TRUE
    /\ pc' = "panic"
    /\ UNCHANGED <<eid, execRest, calls, failed, seen, ret>>

\* _, proc, err := s.sandbox.EnterContainer(containerID, *execs.cmds)
execEnterContainer(ok) ==
    /\ At("exec", "enter")
    /\ sandbox
    /\ ok => VmHas(cid)
    /\ Log("EnterContainer", ok)
    /\ IF ok THEN Goto("register") ELSE ReturnWith("err")
    /\ UNCHANGED <<eid, execRest, panicked, seen>>

\* variant: the pid index is given the container's id
execRegisterContainerID ==
    /\ At("exec", "register")
    /\ eId' = [eId EXCEPT ![eid] = "token"]
    /\ pidNum' = NewPid
    /\ ePid' = [ePid EXCEPT ![eid] = NewPid]
    /\ processes' = MapPut(processes, NewPid, cid)
    /\ eStatus' = [eStatus EXCEPT ![eid] = "running"]
    /\ Goto(IF HasGeometry(eid) THEN "winsize" ELSE "iostream")
    /\ UNCHANGED <<eid, eTty, eTtyio, eExitIOch, eCopies, eWaits, nExecs, ec, timedOut, proxyVars, concVars,
                   cfgVars, containers, status, ttyio, bgVars, vmVars, nStarts, panicked,
                   calls, failed, seen>>

\* execs.id = proc.Token; pid := s.pid(); execs.pid = pid;
\* s.processes[pid] = execID; execs.status = task.StatusRunning
execRegister ==
    /\ At("exec", "register")
    /\ eId' = [eId EXCEPT ![eid] = "token"]
    /\ pidNum' = NewPid
    /\ ePid' = [ePid EXCEPT ![eid] = NewPid]
    /\ processes' = MapPut(processes, NewPid, eid)
    /\ eStatus' = [eStatus EXCEPT ![eid] = "running"]
    /\ Goto(IF HasGeometry(eid) THEN "winsize" ELSE "iostream")
    /\ UNCHANGED <<eid, eTty, eTtyio, eExitIOch, eCopies, eWaits, nExecs, ec, timedOut, proxyVars, concVars, cfgVars,
                   containers, status, ttyio, bgVars, vmVars, nStarts, panicked, calls,
                   failed, seen>>

\* err = s.sandbox.WinsizeProcess(...); if err != nil { return nil, err }
execWinsize(ok) ==
    /\ At("exec", "winsize")
    /\ Log("WinsizeProcess", ok)
    /\ IF ok THEN Goto("iostream") ELSE ReturnWith("err")
    /\ UNCHANGED <<eid, execRest, panicked, seen>>

\* stdin, stdout, stderr, err := s.sandbox.IOStream(c.id, execs.id)
execIOStream(ok) ==
    /\ At("exec", "iostream")
    /\ Log("IOStream", ok)
    /\ IF ok THEN Goto("io") ELSE ReturnWith("err")
    /\ UNCHANGED <<eid, execRest, panicked, seen>>

\* variant: the I/O of an exec is handled as startContainer handles a container's
execTtyLikeContainer(ok) ==
    /\ At("exec", "io")
    /\ ok \/ eTty[eid].stdio # <<"", "", "">>
    /\ failed' = IF ok THEN failed ELSE failed \cup {"newTtyIO"}
    /\ IF eTty[eid].stdio = <<"", "", "">>
       THEN /\ calls' = Append(calls, "close")
            /\ eExitIOch' = [eExitIOch EXCEPT ![eid] = @ + 1]
            /\ UNCHANGED <<eTtyio, eCopies>>
            /\ Goto("wait")
       ELSE /\ eExitIOch' = eExitIOch
            /\ IF ok
               THEN /\ calls' = calls \o <<"newTtyIO", "go ioCopy">>
                    /\ eTtyio' = [eTtyio EXCEPT ![eid] = TRUE]
                    /\ eCopies' = [eCopies EXCEPT ![eid] = @ + 1]
                    /\ Goto("wait")
               ELSE /\ calls' = Append(calls, "newTtyIO")
                    /\ UNCHANGED <<eTtyio, eCopies>>
                    /\ ReturnWith("err")
    /\ UNCHANGED <<eid, eTty, eStatus, ePid, eId, eWaits, pidNum, nExecs, ec, timedOut, proxyVars, concVars,
                   cfgVars, tableVars, status, ttyio, bgVars, vmVars, nStarts, panicked,
                   seen>>

\* tty, err := newTtyIO(...); execs.ttyio = tty; go ioCopy(execs.exitIOch, ...)
execTty(ok) ==
    /\ At("exec", "io")
    /\ failed' = IF ok THEN failed ELSE failed \cup {"newTtyIO"}
    /\ IF ok
       THEN /\ calls' = calls \o <<"newTtyIO", "go ioCopy">>
            /\ eTtyio' = [eTtyio EXCEPT ![eid] = TRUE]
            /\ eCopies' = [eCopies EXCEPT ![eid] = @ + 1]
            /\ Goto("wait")
       ELSE /\ calls' = Append(calls, "newTtyIO")
            /\ UNCHANGED <<eTtyio, eCopies>>
            /\ ReturnWith("err")
    /\ UNCHANGED <<eid, eTty, eStatus, ePid, eId, eExitIOch, eWaits, pidNum, nExecs, ec, timedOut, proxyVars, concVars,
                   cfgVars, tableVars, status, ttyio, bgVars, vmVars, nStarts, panicked,
                   seen>>

\* go wait(s, c, execID); return execs, nil
execWait ==
    /\ At("exec", "wait")
    /\ Log("go wait", TRUE)
    /\ eWaits' = [eWaits EXCEPT ![eid] = @ + 1]
    /\ ReturnWith("nil")
    /\ UNCHANGED <<eid, eTty, eStatus, ePid, eId, eTtyio, eExitIOch, eCopies, pidNum,
                   nExecs, ec, timedOut, proxyVars, concVars, cfgVars, tableVars, status, ttyio, bgVars, vmVars, nStarts,
                   panicked, seen>>

startExec ==
    \/ \E c \in Containers, e \in Execs : execEnter(c, e)
    \/ execNilSandbox
    \/ \E ok \in BOOLEAN : execEnterContainer(ok)
    \/ execRegister
    \/ \E ok \in BOOLEAN : execWinsize(ok)
    \/ \E ok \in BOOLEAN : execIOStream(ok)
    \/ \E ok \in BOOLEAN : execTty(ok)
    \/ execWait

\* ioCopy of an exec: the streams reach their end, the copy closes the exit channel
execIoCopy(e) ==
    /\ ~panicked
    /\ eCopies[e] > 0
    /\ eCopies' = [eCopies EXCEPT ![e] = @ - 1]
    /\ eExitIOch' = [eExitIOch EXCEPT ![e] = @ + 1]
    /\ panicked' = (eExitIOch[e] >= 1)
    /\ UNCHANGED <<execCfgVars, eStatus, ePid, eId, eTtyio, eWaits, pidNum, nExecs, ec, timedOut, proxyVars, concVars,
                   cfgVars, tableVars, status, ttyio, bgVars, vmVars, nStarts, op, cid, pc,
                   calls, failed, seen, ret, pre>>

\* ------------------------------------------------------------ wait and reap

\* s.ec <- exit{timestamp, pid, status, id, execid}
cReap(pid, id, execid) ==
    ec' = ec \cup {[pid |-> pid, id |-> id, execid |-> execid]}

\* the reap timeout of a running wait elapses
reapTimeout(p) ==
    /\ ~panicked
    /\ ~timedOut[p]
    /\ IF p \in Containers THEN waits[p] > 0 ELSE eWaits[p] > 0
    /\ timedOut' = [timedOut EXCEPT ![p] = TRUE]
    /\ UNCHANGED <<execCfgVars, execVars, ec, proxyVars, concVars, cfgVars, tableVars, status,
                   ttyio, bgVars, vmVars, nStarts, panicked, op, cid, pc, calls, failed,
                   seen, ret, pre>>

\* variant: the wait does not look at the exit channel
waitExecUnordered(e) ==
    /\ ~panicked
    /\ eWaits[e] > 0
    /\ eWaits' = [eWaits EXCEPT ![e] = @ - 1]
    /\ cReap(ePid[e], execOwner[e], e)
    /\ UNCHANGED <<execCfgVars, eStatus, ePid, eId, eTtyio, eExitIOch, eCopies, pidNum,
                   nExecs, timedOut, proxyVars, concVars, cfgVars, tableVars, status, ttyio, bgVars, vmVars,
                   nStarts, panicked, op, cid, pc, calls, failed, seen, ret, pre>>

\* wait(s, c, execID): once the exec's exit channel is closed or the reap timeout
\* has elapsed, the process's exit is taken and handed to cReap
waitExec(e) ==
    /\ ~panicked
    /\ eWaits[e] > 0
    /\ eExitIOch[e] >= 1 \/ timedOut[e]
    /\ eWaits' = [eWaits EXCEPT ![e] = @ - 1]
    /\ cReap(ePid[e], execOwner[e], e)
    /\ UNCHANGED <<execCfgVars, eStatus, ePid, eId, eTtyio, eExitIOch, eCopies, pidNum,
                   nExecs, timedOut, proxyVars, concVars, cfgVars, tableVars, status, ttyio, bgVars, vmVars,
                   nStarts, panicked, op, cid, pc, calls, failed, seen, ret, pre>>

\* wait(s, c, ""): the same for the container's own process
waitContainer(c) ==
    /\ ~panicked
    /\ waits[c] > 0
    /\ exitIOch[c] >= 1 \/ timedOut[c]
    /\ waits' = [waits EXCEPT ![c] = @ - 1]
    /\ cReap(pidOf[c], c, "")
    /\ UNCHANGED <<execCfgVars, execVars, timedOut, proxyVars, concVars, cfgVars, tableVars, status, ttyio,
                   exitIOch, copies, vmVars, nStarts, panicked, op, cid, pc, calls,
                   failed, seen, ret, pre>>

\* the caller takes the result; the request flow is free for the next request
Return ==
    /\ pc = "done"
    /\ ~panicked
    /\ op' = "none"
    /\ cid' = NoContainer
    /\ pc' = "idle"
    /\ calls' = <<>>
    /\ failed' = {}
    /\ seen' = "none"
    /\ ret' = "none"
    /\ pre' = NoSnapshot
    /\ eid' = NoExec
    /\ UNCHANGED <<eTty, execVars, ec, timedOut, proxyVars, concVars, cfgVars, tableVars, status,
                   ttyio, bgVars, panicked, vmVars, nStarts>>

Next ==
    \/ startContainer
    \/ deleteContainer
    \/ cleanupContainer
    \/ \E c \in Containers : ioCopy(c)
    \/ \E c \in Containers : wait(c)
    \/ Return

Spec == Init /\ [][Next]_vars

\* The exec flow: both containers started by startContainer with no I/O paths,
\* execs created with any geometry and paths; startExec and deleteContainer
\* requests and the copy activities of the execs.
InitExec ==
    /\ sandbox \in BOOLEAN
    /\ containers = Containers
    /\ processes = [p \in {pidOf[c] : c \in Containers} |->
                      CHOOSE c \in Containers : pidOf[c] = p]
    /\ cType = [c \in Containers |-> IF c = "c1" THEN "pod_sandbox" ELSE "pod_container"]
    /\ stdio = [c \in Containers |-> <<"", "", "">>]
    /\ status = [c \in Containers |-> "running"]
    /\ ttyio = [c \in Containers |-> FALSE]
    /\ exitIOch = [c \in Containers |-> 1]
    /\ copies = [c \in Containers |-> 0]
    /\ waits = [c \in Containers |-> 1]
    /\ panicked = FALSE
    /\ vmContainers = Containers
    /\ vmState = [c \in Containers |-> "running"]
    /\ vmSandbox = "running"
    /\ op = "none"
    /\ cid = NoContainer
    /\ pc = "idle"
    /\ calls = <<>>
    /\ failed = {}
    /\ seen = "none"
    /\ ret = "none"
    /\ pre = NoSnapshot
    /\ nStarts = 0
    /\ eTty \in [Execs -> {[height |-> g[1], width |-> g[2], stdio |-> io] :
                              g \in Geometries, io \in ExecIOChoices}]
    /\ ExecsCreated

NextExec ==
    \/ startExec
    \/ deleteContainer
    \/ \E e \in Execs : execIoCopy(e)
    \/ Return

SpecExec == InitExec /\ [][NextExec]_vars

\* The reap flow of one container and one exec of it: c2 and e2 as created,
\* started by startContainer and startExec, with their copy and wait activities,
\* the reap timeout and cReap.
InitReap ==
    /\ sandbox = TRUE
    /\ containers = Containers
    /\ processes = [p \in {pidOf[c] : c \in Containers} |->
                      CHOOSE c \in Containers : pidOf[c] = p]
    /\ cType = [c \in Containers |-> IF c = "c1" THEN "pod_sandbox" ELSE "pod_container"]
    /\ stdio \in {f \in [Containers -> IOChoices] : f["c1"] = <<"", "", "">>}
    /\ status = [c \in Containers |-> "created"]
    /\ ttyio = [c \in Containers |-> FALSE]
    /\ exitIOch = [c \in Containers |-> 0]
    /\ copies = [c \in Containers |-> 0]
    /\ waits = [c \in Containers |-> 0]
    /\ panicked = FALSE
    /\ vmContainers = Containers
    /\ vmState = [c \in Containers |-> "ready"]
    /\ vmSandbox = "running"
    /\ op = "none"
    /\ cid = NoContainer
    /\ pc = "idle"
    /\ calls = <<>>
    /\ failed = {}
    /\ seen = "none"
    /\ ret = "none"
    /\ pre = NoSnapshot
    /\ nStarts = 0
    /\ eTty \in {f \in [Execs -> {[height |-> g[1], width |-> g[2], stdio |-> io] :
                                    g \in Geometries, io \in ExecIOChoices}] :
                   /\ f["e1"] = [height |-> 0, width |-> 0, stdio |-> <<"", "", "">>]
                   /\ (f["e2"].height = 0) = (f["e2"].width = 0)}
    /\ ExecsCreated

NextReap ==
    \/ startEnter("c2")
    \/ \E ok \in BOOLEAN : startVci(ok)
    \/ \E ok \in BOOLEAN : startIOStream(ok)
    \/ \E ok \in BOOLEAN : startTty(ok)
    \/ startClose
    \/ startWait
    \/ execEnter("c2", "e2")
    \/ \E ok \in BOOLEAN : execEnterContainer(ok)
    \/ execRegister
    \/ \E ok \in BOOLEAN : execWinsize(ok)
    \/ \E ok \in BOOLEAN : execIOStream(ok)
    \/ \E ok \in BOOLEAN : execTty(ok)
    \/ execWait
    \/ ioCopy("c2")
    \/ execIoCopy("e2")
    \/ \E p \in {"c2", "e2"} : reapTimeout(p)
    \/ waitContainer("c2")
    \/ waitExec("e2")
    \/ Return

SpecReap == InitReap /\ [][NextReap]_vars

\* ------------------------------------------- requests served concurrently
\* Two request threads of one service, each with a request for its own
\* container. A map update is a read of the table followed by a write of the
\* updated table.

\* what no request thread changes
concFrozen == <<op, cid, pc, calls, failed, seen, ret, pre, nStarts, panicked, cfgVars,
                eid, eTty, eExitIOch, nExecs, ec, timedOut, proxyVars>>

concStartVars == <<status, ttyio, bgVars>>

concExecVars == <<eStatus, ePid, eId, eTtyio, eCopies, eWaits, pidNum>>

ThreadAt(t, o, at) == th[t].op = o /\ th[t].pc = at

\* a request arrives at the service
concRequest(t, o) ==
    /\ th[t].pc = "idle"
    /\ th' = [th EXCEPT ![t].op = o, ![t].pc = "lock"]
    /\ UNCHANGED <<mu, concFrozen, tableVars, concStartVars, vmVars, concExecVars>>

\* variant: the request goes on whether or not the lock is held
concLockUnguarded(t) ==
    /\ th[t].pc = "lock"
    /\ mu' = t
    /\ th' = [th EXCEPT ![t].pc = "body"]
    /\ UNCHANGED <<concFrozen, tableVars, concStartVars, vmVars, concExecVars>>

\* the request handler takes the service lock
concLock(t) ==
    /\ th[t].pc = "lock"
    /\ mu = "none"
    /\ mu' = t
    /\ th' = [th EXCEPT ![t].pc = "body"]
    /\ UNCHANGED <<concFrozen, tableVars, concStartVars, vmVars, concExecVars>>

\* the request handler releases the service lock and answers
concUnlock(t) ==
    /\ th[t].pc = "unlock"
    /\ mu' = "none"
    /\ th' = [th EXCEPT ![t].pc = "done"]
    /\ UNCHANGED <<concFrozen, tableVars, concStartVars, vmVars, concExecVars>>

\* startContainer, up to the call `fail` that fails; it touches neither table
concStartContainer(t, fail) ==
    LET c == threadContainer[t]
        started == cType[c] # "" /\ sandbox /\ fail # "vci"
        ioOk == started /\ fail # "IOStream"
        copied == ioOk /\ HasIO(c) /\ fail # "newTtyIO"
        closed == ioOk /\ ~HasIO(c)
    IN  /\ ThreadAt(t, "start", "body")
        /\ fail = "newTtyIO" => HasIO(c)
        /\ IF started
           THEN IF IsSandbox(c) THEN VmStartSandbox(c) ELSE VmStartContainer(c)
           ELSE UNCHANGED vmVars
        /\ status' = IF started THEN [status EXCEPT ![c] = "running"] ELSE status
        /\ ttyio' = IF copied THEN [ttyio EXCEPT ![c] = TRUE] ELSE ttyio
        /\ copies' = IF copied THEN [copies EXCEPT ![c] = @ + 1] ELSE copies
        /\ exitIOch' = IF closed THEN [exitIOch EXCEPT ![c] = @ + 1] ELSE exitIOch
        /\ waits' = IF copied \/ closed THEN [waits EXCEPT ![c] = @ + 1] ELSE waits
        /\ th' = [th EXCEPT ![t].pc = "unlock",
                            ![t].ret = IF copied \/ closed THEN "nil" ELSE "err"]
        /\ UNCHANGED <<mu, concFrozen, tableVars, concExecVars>>

\* deleteContainer up to the unmount: StatusContainer, StopContainer unless
\* stopped, DeleteContainer; the call `fail` fails and the request returns
concDeleteCalls(t, fail) ==
    LET c == threadContainer[t]
        stopped == fail \notin {"StatusContainer", "StopContainer"} /\ vmState[c] # "stopped"
        deleted == fail = "none"
    IN  /\ ThreadAt(t, "delete", "body")
        /\ fail = "StopContainer" => vmState[c] # "stopped"
        /\ fail = "none" => VmHas(c)
        /\ vmState' = IF stopped THEN [vmState EXCEPT ![c] = "stopped"] ELSE vmState
        /\ vmContainers' = IF deleted THEN vmContainers \ {c} ELSE vmContainers
        /\ th' = IF deleted
                 THEN [th EXCEPT ![t].pc = "readProcesses", ![t].reached = TRUE]
                 ELSE [th EXCEPT ![t].pc = "unlock", ![t].ret = "err"]
        /\ UNCHANGED <<mu, vmSandbox, concFrozen, tableVars, concStartVars, concExecVars>>

\* a map update reads s.processes
concReadProcesses(t) ==
    /\ th[t].pc = "readProcesses"
    /\ th' = [th EXCEPT ![t].rdP = processes, ![t].pc = "writeProcesses"]
    /\ UNCHANGED <<mu, concFrozen, tableVars, concStartVars, vmVars, concExecVars>>

\* delete(s.processes, c.pid)
concDeleteProcess(t) ==
    /\ ThreadAt(t, "delete", "writeProcesses")
    /\ processes' = MapDelete(th[t].rdP, pidOf[threadContainer[t]])
    /\ th' = [th EXCEPT ![t].pc = "readContainers"]
    /\ UNCHANGED <<mu, containers, concFrozen, concStartVars, vmVars, concExecVars>>

\* the map update reads s.containers
concReadContainers(t) ==
    /\ ThreadAt(t, "delete", "readContainers")
    /\ th' = [th EXCEPT ![t].rdC = containers, ![t].pc = "writeContainers"]
    /\ UNCHANGED <<mu, concFrozen, tableVars, concStartVars, vmVars, concExecVars>>

\* delete(s.containers, c.id); return nil
concDeleteContainer(t) ==
    /\ ThreadAt(t, "delete", "writeContainers")
    /\ containers' = th[t].rdC \ {threadContainer[t]}
    /\ th' = [th EXCEPT ![t].pc = "unlock", ![t].ret = "nil"]
    /\ UNCHANGED <<mu, processes, concFrozen, concStartVars, vmVars, concExecVars>>

\* startExec up to pid := s.pid(): getContainer, getExec, EnterContainer
concExecEnter(t, ok) ==
    LET c == threadContainer[t]
        e == threadExec[t]
        entered == c \in containers /\ ok
    IN  /\ ThreadAt(t, "exec", "body")
        /\ sandbox
        /\ ok => VmHas(c)
        /\ eId' = IF entered THEN [eId EXCEPT ![e] = "token"] ELSE eId
        /\ pidNum' = IF entered THEN NewPid ELSE pidNum
        /\ ePid' = IF entered THEN [ePid EXCEPT ![e] = NewPid] ELSE ePid
        /\ th' = IF entered
                 THEN [th EXCEPT ![t].pc = "readProcesses", ![t].reached = TRUE]
                 ELSE [th EXCEPT ![t].pc = "unlock", ![t].ret = "err"]
        /\ UNCHANGED <<mu, eStatus, eTtyio, eCopies, eWaits, concFrozen, tableVars,
                       concStartVars, vmVars>>

\* s.processes[pid] = execID; execs.status = task.StatusRunning
concPutProcess(t) ==
    LET e == threadExec[t]
    IN  /\ ThreadAt(t, "exec", "writeProcesses")
        /\ processes' = MapPut(th[t].rdP, ePid[e], e)
        /\ eStatus' = [eStatus EXCEPT ![e] = "running"]
        /\ th' = [th EXCEPT ![t].pc = "tail"]
        /\ UNCHANGED <<mu, containers, ePid, eId, eTtyio, eCopies, eWaits, pidNum,
                       concFrozen, concStartVars, vmVars>>

\* the rest of startExec: WinsizeProcess with a geometry, IOStream, newTtyIO,
\* go ioCopy, go wait; the call `fail` fails and the request returns
concExecTail(t, fail) ==
    LET e == threadExec[t]
        finished == fail = "none"
    IN  /\ ThreadAt(t, "exec", "tail")
        /\ fail = "WinsizeProcess" => HasGeometry(e)
        /\ eTtyio' = IF finished THEN [eTtyio EXCEPT ![e] = TRUE] ELSE eTtyio
        /\ eCopies' = IF finished THEN [eCopies EXCEPT ![e] = @ + 1] ELSE eCopies
        /\ eWaits' = IF finished THEN [eWaits EXCEPT ![e] = @ + 1] ELSE eWaits
        /\ th' = [th EXCEPT ![t].pc = "unlock",
                            ![t].ret = IF finished THEN "nil" ELSE "err"]
        /\ UNCHANGED <<mu, eStatus, ePid, eId, pidNum, concFrozen, tableVars,
                       concStartVars, vmVars>>

\* Two requests for different containers, served at the same time.
InitConc ==
    /\ sandbox = TRUE
    /\ containers = Containers
    /\ processes = [p \in {pidOf[c] : c \in Containers} |->
                      CHOOSE c \in Containers : pidOf[c] = p]
    /\ cType = [c \in Containers |-> IF c = "c1" THEN "pod_sandbox" ELSE "pod_container"]
    /\ stdio = [c \in Containers |-> IF c = "c1" THEN <<"", "", "">>
                                                  ELSE <<"in", "out", "err">>]
    /\ status = [c \in Containers |-> "created"]
    /\ ttyio = [c \in Containers |-> FALSE]
    /\ exitIOch = [c \in Containers |-> 0]
    /\ copies = [c \in Containers |-> 0]
    /\ waits = [c \in Containers |-> 0]
    /\ panicked = FALSE
    /\ vmContainers = Containers
    /\ vmState \in [Containers -> {"ready", "stopped"}]
    /\ vmSandbox = "ready"
    /\ op = "none"
    /\ cid = NoContainer
    /\ pc = "idle"
    /\ calls = <<>>
    /\ failed = {}
    /\ seen = "none"
    /\ ret = "none"
    /\ pre = NoSnapshot
    /\ nStarts = 0
    /\ eTty = [e \in Execs |-> IF e = "e1"
                 THEN [height |-> 0, width |-> 0, stdio |-> <<"", "", "">>]
                 ELSE [height |-> 24, width |-> 80, stdio |-> <<"in", "out", "err">>]]
    /\ ExecsCreated

NextConc ==
    \/ \E t \in Threads, o \in {"start", "exec", "delete"} : concRequest(t, o)
    \/ \E t \in Threads : concLock(t)
    \/ \E t \in Threads, fail \in {"none", "vci", "IOStream", "newTtyIO"} :
          concStartContainer(t, fail)
    \/ \E t \in Threads,
          fail \in {"none", "StatusContainer", "StopContainer", "DeleteContainer"} :
          concDeleteCalls(t, fail)
    \/ \E t \in Threads : concReadProcesses(t)
    \/ \E t \in Threads : concDeleteProcess(t)
    \/ \E t \in Threads : concReadContainers(t)
    \/ \E t \in Threads : concDeleteContainer(t)
    \/ \E t \in Threads, ok \in BOOLEAN : concExecEnter(t, ok)
    \/ \E t \in Threads : concPutProcess(t)
    \/ \E t \in Threads,
          fail \in {"none", "WinsizeProcess", "IOStream", "newTtyIO"} :
          concExecTail(t, fail)
    \/ \E t \in Threads : concUnlock(t)

SpecConc == InitConc /\ [][NextConc]_vars

\* The ProxyType registry alone: a ProxyType variable, written and read by Set
\* and String; the lifecycle stays as created.
InitProxy ==
    /\ Init
    /\ sandbox
    /\ \A c \in Containers : cType[c] # "" /\ stdio[c] = <<"", "", "">>

NextProxy ==
    \/ \E t \in KnownProxyTypes \cup {ZeroProxyType} : formatThenParse(t)
    \/ \E text \in Texts : parseThenFormat(text)

SpecProxy == InitProxy /\ [][NextProxy]_vars

\* ------------------------------------------------------------------ claims

DeleteDone == op = "delete" /\ pc = "done"
CleanupDone == op = "cleanup" /\ pc = "done"
StartDone == op = "start" /\ pc = "done"

Removed(c) == c \notin containers /\ pidOf[c] \notin DOMAIN processes

\* C1: deleteContainer removes the container from s.containers and its pid from
\* s.processes exactly when the status query, the stop (when issued) and the
\* delete all succeeded; when one of them fails it returns the error and both
\* tables are as they were; a failed rootfs unmount is not returned and does not
\* prevent the removal.
C1_DeleteRemovesIffAllSucceeded ==
    DeleteDone =>
        IF failed \cap {"StatusContainer", "StopContainer", "DeleteContainer"} = {}
        THEN /\ ret = "nil"
             /\ containers = pre.containers \ {cid}
             /\ processes = MapDelete(pre.processes, pidOf[cid])
        ELSE /\ ret = "err"
             /\ containers = pre.containers
             /\ processes = pre.processes

C1_Witness ==
    /\ DeleteDone
    /\ "UnmountAll" \in failed
    /\ ret = "nil"
    /\ cid \in pre.containers
    /\ pidOf[cid] \in DOMAIN pre.processes
    /\ Removed(cid)

\* C2: when the status query reports stopped, deleteContainer issues no
\* StopContainer and still issues DeleteContainer and, that delete succeeding,
\* the unmount and the removal from the tables; when the status is anything
\* else, StopContainer is issued, before any DeleteContainer.
C2_StopSkippedWhenStopped ==
    (DeleteDone /\ "StatusContainer" \notin failed) =>
        IF seen = "stopped"
        THEN /\ ~Called("StopContainer")
             /\ Called("DeleteContainer")
             /\ "DeleteContainer" \notin failed =>
                    /\ Before("DeleteContainer", "UnmountAll")
                    /\ Removed(cid)
        ELSE /\ Called("StopContainer")
             /\ Called("DeleteContainer") => Before("StopContainer", "DeleteContainer")

C2_Witness ==
    /\ DeleteDone
    /\ seen = "stopped"
    /\ calls = <<"StatusContainer", "DeleteContainer", "UnmountAll">>
    /\ ret = "nil"
    /\ Removed(cid)

\* C3: cleanupContainer on the last container of the sandbox, its kill, stop and
\* delete succeeding, calls StopSandbox after the container's delete and then
\* DeleteSandbox; DeleteSandbox is not called when StopSandbox failed; a failure
\* of either is returned.
C3_LastContainerCascades ==
    (/\ CleanupDone
     /\ pre.vm = {cid}
     /\ Called("DeleteContainer")
     /\ failed \cap {"KillContainer", "StopContainer", "DeleteContainer"} = {}) =>
        /\ Before("DeleteContainer", "StopSandbox")
        /\ IF "StopSandbox" \in failed
           THEN ~Called("DeleteSandbox") /\ ret = "err"
           ELSE /\ Before("StopSandbox", "DeleteSandbox")
                /\ ret = (IF "DeleteSandbox" \in failed THEN "err" ELSE "nil")

C3_Witness ==
    /\ CleanupDone
    /\ pre.vm = {cid}
    /\ Before("DeleteContainer", "StopSandbox")
    /\ Before("StopSandbox", "DeleteSandbox")
    /\ "DeleteSandbox" \in failed
    /\ ret = "err"

\* C4: cleanupContainer calls neither StopSandbox nor DeleteSandbox while the
\* sandbox still holds a container, the one whose delete failed included.
C4_NoCascadeWhileContainersRemain ==
    (op = "cleanup" /\ (Called("StopSandbox") \/ Called("DeleteSandbox"))) =>
        vmContainers = {}

C4_Witness ==
    /\ CleanupDone
    /\ "DeleteContainer" \in failed
    /\ cid \in vmContainers
    /\ Called("GetAllContainers")
    /\ ~Called("StopSandbox")
    /\ ret = "nil"

\* C5 as stated: cleanupContainer returns an error only if StopSandbox or
\* DeleteSandbox failed.
C5_OnlyCascadeErrorsReturned ==
    (CleanupDone /\ ret = "err") => failed \cap {"StopSandbox", "DeleteSandbox"} # {}

\* C5 amended: cleanupContainer returns an error exactly when FetchSandbox, the
\* status query, the kill, the stop, StopSandbox or DeleteSandbox failed; a
\* failed DeleteContainer or unmount is only logged.
C5_ReturnedErrors ==
    CleanupDone =>
        /\ ret \in {"nil", "err"}
        /\ ret = "err" <=>
               failed \cap {"FetchSandbox", "StatusContainer", "KillContainer",
                            "StopContainer", "StopSandbox", "DeleteSandbox"} # {}

C5_Witness ==
    /\ CleanupDone
    /\ failed = {"StopContainer"}
    /\ ret = "err"

\* C6 as stated: for a container reported stopped, cleanupContainer issues
\* neither KillContainer nor StopContainer; otherwise the kill precedes the stop.
C6_KillAndStopOnlyWhenNotStopped ==
    (CleanupDone /\ Called("StatusContainer") /\ "StatusContainer" \notin failed) =>
        IF StateToOCIState(seen) = "stopped"
        THEN ~Called("KillContainer") /\ ~Called("StopContainer")
        ELSE Called("StopContainer") => Before("KillContainer", "StopContainer")

\* C6 amended: the kill is issued exactly when the status is not stopped, and
\* before the stop; the stop is issued whatever the status (unless the kill
\* failed), so for a container already stopped cleanupContainer issues no
\* KillContainer but does issue StopContainer, and then the delete.
C6_KillOnlyWhenNotStopped ==
    (CleanupDone /\ Called("StatusContainer") /\ "StatusContainer" \notin failed) =>
        /\ Called("KillContainer") <=> StateToOCIState(seen) # "stopped"
        /\ Called("StopContainer") <=> "KillContainer" \notin failed
        /\ (Called("KillContainer") /\ Called("StopContainer")) =>
               Before("KillContainer", "StopContainer")
        /\ Called("DeleteContainer") => Before("StopContainer", "DeleteContainer")

C6_Witness ==
    /\ CleanupDone
    /\ seen = "stopped"
    /\ ~Called("KillContainer")
    /\ Before("StatusContainer", "StopContainer")
    /\ Before("StopContainer", "DeleteContainer")

\* C7: a DeleteContainer failure inside cleanupContainer is not returned: the
\* unmount and the empty-sandbox check still follow, and the result is nil
\* unless a cascading sandbox step fails.
C7_DeleteFailureSwallowed ==
    (CleanupDone /\ "DeleteContainer" \in failed) =>
        /\ Before("DeleteContainer", "UnmountAll")
        /\ Before("UnmountAll", "GetAllContainers")
        /\ ret = (IF failed \cap {"StopSandbox", "DeleteSandbox"} # {} THEN "err" ELSE "nil")

C7_Witness ==
    /\ CleanupDone
    /\ {"DeleteContainer", "UnmountAll"} \subseteq failed
    /\ Called("GetAllContainers")
    /\ ret = "nil"

\* C8 as stated: a container's exit-notification channel is never closed a
\* second time, startContainer being invoked more than once included.
C8_ExitChannelClosedAtMostOnce ==
    \A c \in Containers : exitIOch[c] <= 1

\* C9: a successful startContainer of a container whose stdin, stdout and stderr
\* are all empty constructs no terminal adapter, launches no copy activity and
\* closes the exit channel itself before it launches the wait activity, so that
\* no wait activity of such a container finds the channel open.
C9_NoIOClosesExitChannel ==
    /\ (StartDone /\ ret = "nil" /\ stdio[cid] = <<"", "", "">>) =>
           /\ ~Called("newTtyIO")
           /\ ~Called("go ioCopy")
           /\ Before("close", "go wait")
           /\ exitIOch[cid] >= 1
    /\ \A c \in Containers :
           stdio[c] = <<"", "", "">> =>
               /\ ~ttyio[c]
               /\ copies[c] = 0
               /\ waits[c] > 0 => exitIOch[c] >= 1

C9_Witness ==
    /\ StartDone
    /\ ret = "nil"
    /\ stdio[cid] = <<"", "", "">>
    /\ calls[Len(calls) - 1] = "close"
    /\ waits[cid] = 1
    /\ exitIOch[cid] = 1

\* C10: startContainer on a container whose cType is unset, or with no sandbox
\* attached, returns an error at once: no call to the sandbox control API, the
\* container's status, its exit channel and the background activities as they
\* were.
C10_RejectedStartHasNoEffect ==
    [][(pc = "idle" /\ op' = "start" /\ (cType[cid'] = "" \/ ~sandbox)) =>
           /\ pc' = "done"
           /\ ret' = "err"
           /\ calls' = <<>>
           /\ UNCHANGED <<status, ttyio, exitIOch, copies, waits, vmVars, tableVars,
                          panicked>>]_vars

C10_Witness ==
    /\ StartDone
    /\ ret = "err"
    /\ failed = {"sandbox"}
    /\ cType[cid] # ""
    /\ calls = <<>>
    /\ status[cid] = "created"

\* C11: when the sandbox/container start call or the opening of the I/O streams
\* fails, startContainer returns the error, launches neither the copy nor the
\* wait activity and does not close the exit channel.
C11_FailedStartLaunchesNothing ==
    (StartDone /\ failed \cap {"StartSandbox", "StartContainer", "IOStream"} # {}) =>
        /\ ret = "err"
        /\ ~Called("newTtyIO")
        /\ ~Called("go ioCopy")
        /\ ~Called("go wait")
        /\ ~Called("close")

C11_Witness ==
    /\ StartDone
    /\ calls = <<"StartContainer", "IOStream">>
    /\ failed = {"IOStream"}
    /\ ret = "err"
    /\ exitIOch[cid] = 0
    /\ copies[cid] = 0
    /\ waits[cid] = 0

\* C19 as stated: whenever startContainer returns an error, the container's
\* status is what it was before the call.
C19_StatusUnchangedOnError ==
    (StartDone /\ ret = "err") => status[cid] = pre.status[cid]

ExecDone == op = "exec" /\ pc = "done"

Started(e) == eStatus[e] = "running"

C15_ExecIOAsContainerIO ==
    (ExecDone /\ ret = "nil" /\ eTty[eid].stdio = <<"", "", "">>) =>
        /\ ~Called("newTtyIO")
        /\ ~Called("go ioCopy")
        /\ eExitIOch[eid] >= 1

\* C15 amended: startExec does not look at the exec's paths: a successful
\* startExec has constructed the terminal adapter, launched one copy activity
\* (which closes the exec's exit channel when it ends) and then one wait
\* activity, and has not closed the channel itself, the paths being empty or not.
C15_ExecAlwaysCopies ==
    (ExecDone /\ ret = "nil") =>
        /\ eTtyio[eid]
        /\ ~Called("close")
        /\ SubSeq(calls, Len(calls) - 3, Len(calls)) =
               <<"IOStream", "newTtyIO", "go ioCopy", "go wait">>
        /\ Cardinality({i \in 1..Len(calls) : calls[i] = "go ioCopy"}) = 1
        /\ Cardinality({i \in 1..Len(calls) : calls[i] = "go wait"}) = 1

C15_Witness ==
    /\ ExecDone
    /\ ret = "nil"
    /\ eTty[eid].stdio = <<"", "", "">>
    /\ Called("newTtyIO")
    /\ eCopies[eid] = 1
    /\ eExitIOch[eid] = 0
    /\ eWaits[eid] = 1

\* C16: startExec issues the window resize exactly when the exec's height and
\* width are both nonzero, after EnterContainer and before IOStream; when the
\* resize fails it returns the error without opening the I/O streams or
\* launching the copy or the wait activity.
C16_ResizeOnlyWithGeometry ==
    (ExecDone /\ Called("EnterContainer") /\ "EnterContainer" \notin failed) =>
        /\ Called("WinsizeProcess") <=> (eTty[eid].height # 0 /\ eTty[eid].width # 0)
        /\ Called("WinsizeProcess") =>
               /\ Before("EnterContainer", "WinsizeProcess")
               /\ Called("IOStream") => Before("WinsizeProcess", "IOStream")
        /\ "WinsizeProcess" \in failed =>
               /\ ret = "err"
               /\ ~Called("IOStream")
               /\ ~Called("newTtyIO")
               /\ ~Called("go ioCopy")
               /\ ~Called("go wait")

C16_Witness ==
    /\ ExecDone
    /\ calls = <<"EnterContainer", "WinsizeProcess">>
    /\ failed = {"WinsizeProcess"}
    /\ ret = "err"
    /\ eCopies[eid] = 0
    /\ eWaits[eid] = 0

\* C18 as stated: whenever startExec returns an error, the pid index and the
\* exec's status and pid are what they were before the call.
C18_FailedExecLeavesNoTrace ==
    (ExecDone /\ ret = "err") =>
        /\ processes = pre.processes
        /\ eStatus[eid] = pre.eStatus[eid]
        /\ ePid[eid] = pre.ePid[eid]

\* C20 as stated: after a successful deleteContainer every pid left in the pid
\* index belongs to a container, or to an exec of a container, that is still in
\* the container table.
C20_NoPidOfDeletedContainer ==
    (DeleteDone /\ ret = "nil") =>
        /\ pidOf[cid] \notin DOMAIN processes
        /\ \A p \in DOMAIN processes :
               \/ processes[p] \in containers
               \/ processes[p] \in Execs /\ execOwner[processes[p]] \in containers

\* the exit channel of the process an exit record is about
ChannelClosed(r) == IF r.execid = "" THEN exitIOch[r.id] >= 1 ELSE eExitIOch[r.execid] >= 1

ReapTimedOut(r) == IF r.execid = "" THEN timedOut[r.id] ELSE timedOut[r.execid]

\* C14: no exit record of a container or exec is delivered (cReap's send on
\* s.ec) while the exit channel of that process is still open, unless the reap
\* timeout elapsed: the close, made by the copy activity at its end, comes
\* before the record.
C14_ReapAfterExitChannelClosed ==
    \A r \in ec : ChannelClosed(r) \/ ReapTimedOut(r)

C14_Witness ==
    /\ [pid |-> ePid["e2"], id |-> "c2", execid |-> "e2"] \in ec
    /\ [pid |-> pidOf["c2"], id |-> "c2", execid |-> ""] \in ec
    /\ HasIO("c2")
    /\ copies["c2"] = 0
    /\ eCopies["e2"] = 0
    /\ ~timedOut["c2"]
    /\ ~timedOut["e2"]

\* C17: Set and String are inverse over the four known proxy types: for each of
\* them Set(String(t)) succeeds and gives t, for each of the four tokens
\* String of what Set gave is the token; the zero value is written as "".
C17_ProxyTypeRoundTrip ==
    /\ fp.in \in KnownProxyTypes => (~fp.err /\ fp.out = fp.in)
    /\ pf.in \in KnownTokens => (~pf.err /\ pf.out = pf.in /\ pf.mid \in KnownProxyTypes)
    /\ fp.in = ZeroProxyType => fp.mid = ""

C17_Witness ==
    /\ fp = [in |-> "KataBuiltInProxyType", mid |-> "kataBuiltInProxy", err |-> FALSE,
             out |-> "KataBuiltInProxyType"]
    /\ pf = [in |-> "noopProxy", mid |-> "NoopProxyType", err |-> FALSE,
             out |-> "noopProxy"]

ConcDone == \A t \in Threads : th[t].pc = "done"

\* the tables before the two requests
ConcTables0 ==
    [containers |-> Containers,
     processes |-> [p \in {pidOf[c] : c \in Containers} |->
                      CHOOSE c \in Containers : pidOf[c] = p],
     pidNum |-> Cardinality(Containers)]

\* the tables after the request of thread t was served alone on tab
ConcEffect(tab, t) ==
    IF ~th[t].reached THEN tab
    ELSE IF th[t].op = "delete"
         THEN [tab EXCEPT !.containers = @ \ {threadContainer[t]},
                          !.processes = MapDelete(@, pidOf[threadContainer[t]])]
         ELSE IF th[t].op = "exec"
              THEN [tab EXCEPT !.processes = MapPut(@, tab.pidNum + 1, threadExec[t]),
                               !.pidNum = @ + 1]
              ELSE tab

ConcSerial(first, second) == ConcEffect(ConcEffect(ConcTables0, first), second)

ConcSameTables(tab) == containers = tab.containers /\ processes = tab.processes

\* C13: once two concurrent requests for different containers are answered,
\* the container table and the pid index are what serving the two requests one
\* after the other, in one of the two orders, leaves.
C13_TablesAsSomeSerialExecution ==
    ConcDone => \/ ConcSameTables(ConcSerial("t1", "t2"))
                \/ ConcSameTables(ConcSerial("t2", "t1"))

C13_Witness ==
    /\ ConcDone
    /\ th["t1"].op = "exec" /\ th["t1"].reached
    /\ th["t2"].op = "delete" /\ th["t2"].reached
    /\ containers = {"c1"}
    /\ DOMAIN processes = {1, 3}
    /\ processes[3] = "e1"

====
